---- MODULE Spec2Model ----
(***************************************************************************)
(* Page-view controller of the generated card sheets (cards.py, base       *)
(* template script).  The document is a record `dom`; every JavaScript     *)
(* function of the script is an operator from documents to documents, and  *)
(* every handler (window.onload, the deferred reveal, the toolbar buttons) *)
(* is one action.  Unless stated otherwise the operators follow the latest *)
(* revision of the script (src/unnamed/part_001).                          *)
(***************************************************************************)
EXTENDS Integers, Sequences, FiniteSets, TLC

VARIABLES
  dom,      \* the live document (elements, inline styles, contents)
  phase,    \* "document" before the load event, then "loaded" / "failed"; the
            \* single-function specifications count their calls instead
  timer,    \* the setTimeout of window.onload: "none", "pending", "fired"
  lastOp,   \* name of the handler (or call) that ran last
  returned, \* what that call returned (Undefined for a handler)
  pre,      \* what the buttons showed when that handler started
  source,   \* the document as it was generated, before any handler ran
  buttonsSet, \* the button pairs toggleButtons has been applied to
  loop      \* the registers of a removal loop that is followed step by step

vars == <<dom, phase, timer, lastOp, returned, pre, source, buttonsSet, loop>>

-----------------------------------------------------------------------------
(* Bounds of the explored documents.                                       *)

MaxPages == 2      \* pages of a document (life cycle)
MaxNumbered == 4   \* pages of a document (page numbering alone)
MaxCounted == 3    \* pages of a document (card and page totals alone)
MaxCards == 1      \* card elements on one page
MaxGuides == 4     \* cut guides of a document
MaxCoord == 2      \* largest horizontal coordinate of a cut guide
MaxFooters == 4    \* footer-content blocks of a document (footer clean-up alone)
MaxCovers == 2     \* cover-sized cards of a document (cover clean-up alone)
MaxToggled == 3    \* elements of one class (visibility or display toggling alone)
MaxLoopGuides == 4 \* cut guides of a document (removal loops followed step by step)

-----------------------------------------------------------------------------
(* Values.                                                                 *)

\* the value of a JavaScript expression that evaluates to undefined
Undefined == "undefined"

\* the `on` argument of toggleDisplay / toggleTwoSided: a boolean or missing
OnArgs == {"true", "false", Undefined}

ButtonPairs == {"footer", "cut-guides", "card-backs", "two-sided"}

ButtonOn(pair) == "toggle-" \o pair \o "-on"

ButtonOff(pair) == "toggle-" \o pair \o "-off"

ButtonIds == {ButtonOn(p) : p \in ButtonPairs} \cup {ButtonOff(p) : p \in ButtonPairs}

\* elements the script looks up by id behind an `if (element)` guard
OptionalIds == {"ui-stats", "toggle-card-backs", "toggle-two-sided",
                "toolbar", "ui-toolbar-inner", "ui-modal-help"}

AllIds == ButtonIds \cup OptionalIds

\* inline style of an element that the markup gives no style attribute
NoStyle == [display |-> "", opacity |-> "", pointerEvents |-> ""]

Min(S) == CHOOSE x \in S : \A y \in S : x <= y

RemoveAt(s, k) == [n \in 1..(Len(s) - 1) |-> IF n < k THEN s[n] ELSE s[n + 1]]

-----------------------------------------------------------------------------
(* DOM queries.                                                            *)

\* document.getElementsByClassName for the page classes: the indices, in
\* document order, of the pages carrying the class
PagesByClassName(d, className) ==
  {i \in DOMAIN d.pages : className = "page" \/ className \in d.pages[i].classes}

elementHasClass(page, cls) == cls \in page.classes

isToggledOn(d, button) ==
  IF button \in d.ids THEN d.style[button].display # "none" ELSE FALSE

-----------------------------------------------------------------------------
(* Cut guides.                                                             *)

\* variant: only the first cut guide of a cover is detached (`if` for `while`)
removeCoverGuidesFirstOnly(guides, i) ==
  LET cutGuideElements == {k \in DOMAIN guides : guides[k].cover = i}
  IN IF cutGuideElements = {} THEN guides
     ELSE RemoveAt(guides, Min(cutGuideElements))

\* the while loop over the live collection of the cut guides inside the i-th
\* cover: its first element is detached until the collection is empty
RECURSIVE removeCoverGuides(_, _)
removeCoverGuides(guides, i) ==
  LET cutGuideElements == {k \in DOMAIN guides : guides[k].cover = i}
  IN IF cutGuideElements = {} THEN guides
     ELSE removeCoverGuides(RemoveAt(guides, Min(cutGuideElements)), i)

\* the for loop over the cover-sized cards
RECURSIVE coverLoop(_, _, _)
coverLoop(guides, coverCardElements, i) ==
  IF i > coverCardElements THEN guides
  ELSE coverLoop(removeCoverGuides(guides, i), coverCardElements, i + 1)

removeCutGuidesOnCover(d) ==
  [d EXCEPT !.guides = IF d.coverCards > 0 THEN coverLoop(@, d.coverCards, 1) ELSE @]

\* variant: the test made from the side of the first frame only
overlapOneSided(elementFrame, otherElementFrame) ==
  ~(elementFrame.right < otherElementFrame.left \/
    elementFrame.bottom < otherElementFrame.top)

\* variant: strict comparisons turned into non-strict ones, so that frames
\* sharing only an edge do not count as overlapping
overlapExclusive(elementFrame, otherElementFrame) ==
  ~(elementFrame.right <= otherElementFrame.left \/
    elementFrame.left >= otherElementFrame.right \/
    elementFrame.bottom <= otherElementFrame.top \/
    elementFrame.top >= otherElementFrame.bottom)

overlap(elementFrame, otherElementFrame) ==
  ~(elementFrame.right < otherElementFrame.left \/
    elementFrame.left > otherElementFrame.right \/
    elementFrame.bottom < otherElementFrame.top \/
    elementFrame.top > otherElementFrame.bottom)

\* variant: the inner loop without its `i == j` test
RECURSIVE overlapInnerNoSkip(_, _, _, _)
overlapInnerNoSkip(elements, i, elementFrame, j) ==
  IF j > Len(elements) THEN elements
  ELSE IF overlap(elementFrame, elements[j])
       THEN overlapInnerNoSkip(RemoveAt(elements, j), i, elementFrame, j + 1)
       ELSE overlapInnerNoSkip(elements, i, elementFrame, j + 1)

\* the inner loop over the live collection: j runs over the current indices,
\* the frame of the outer element was read before the loop started
RECURSIVE overlapInner(_, _, _, _)
overlapInner(elements, i, elementFrame, j) ==
  IF j > Len(elements) THEN elements
  ELSE IF i = j THEN overlapInner(elements, i, elementFrame, j + 1)
  ELSE IF overlap(elementFrame, elements[j])
       THEN overlapInner(RemoveAt(elements, j), i, elementFrame, j + 1)
       ELSE overlapInner(elements, i, elementFrame, j + 1)

RECURSIVE overlapOuter(_, _)
overlapOuter(elements, i) ==
  IF i > Len(elements) THEN elements
  ELSE overlapOuter(overlapInner(elements, i, elements[i], 1), i + 1)

removeOverlappingCutGuides(d) ==
  [d EXCEPT !.guides = IF Len(@) > 0 THEN overlapOuter(@, 1) ELSE @]

-----------------------------------------------------------------------------
(* Footer contents.  innerHTML is a sequence of characters.                *)

\* what String.prototype.trim strips: the WhiteSpace and LineTerminator
\* characters of ECMAScript.  Listed are tab, line feed, vertical tab, form
\* feed, carriage return, space, no-break space, ogham space mark and the
\* byte order mark; the other space separators (U+2000 to U+200A, U+202F,
\* U+205F, U+3000) and the line and paragraph separators (U+2028, U+2029)
\* cannot be written in a string of this language, so that no modelled
\* content holds them.
Whitespace ==
  {"\t", "\n", "", "\f", "\r", " ", " ", " ", "﻿"}

RECURSIVE trimStart(_)
trimStart(s) ==
  IF s # <<>> /\ Head(s) \in Whitespace THEN trimStart(Tail(s)) ELSE s

RECURSIVE trimEnd(_)
trimEnd(s) ==
  IF s # <<>> /\ s[Len(s)] \in Whitespace
  THEN trimEnd(SubSeq(s, 1, Len(s) - 1)) ELSE s

trim(s) == trimEnd(trimStart(s))

\* variant: the index moved on by two after a removal, as if the removal had
\* shifted the elements still to be visited
RECURSIVE footerScanSkipping(_, _)
footerScanSkipping(footerContentElements, i) ==
  IF i < 1 THEN footerContentElements
  ELSE IF trim(footerContentElements[i].innerHTML) = <<>>
       THEN footerScanSkipping(RemoveAt(footerContentElements, i), i - 2)
       ELSE footerScanSkipping(footerContentElements, i - 1)

\* the loop of removeEmptyFooterTags over the live collection, from the last
\* index down to the first
RECURSIVE footerScan(_, _)
footerScan(footerContentElements, i) ==
  IF i < 1 THEN footerContentElements
  ELSE IF trim(footerContentElements[i].innerHTML) = <<>>
       THEN footerScan(RemoveAt(footerContentElements, i), i - 1)
       ELSE footerScan(footerContentElements, i - 1)

removeEmptyFooterTags(d) ==
  [d EXCEPT !.footerContents = IF Len(@) > 0 THEN footerScan(@, Len(@)) ELSE @]

-----------------------------------------------------------------------------
(* Style toggles.                                                          *)

\* variant: an unset visibility taken for hidden
toggledVisibilityUnsetHidden(previousVisibility) ==
  IF previousVisibility = "visible" THEN "hidden" ELSE "visible"

toggledVisibility(previousVisibility) ==
  IF previousVisibility = "" \/ previousVisibility = "visible"
  THEN "hidden" ELSE "visible"

\* toggleVisibility is called for 'page-footer' and 'cut-guide'
toggleVisibility(d, className) ==
  LET field == IF className = "cut-guide" THEN "guides" ELSE "footers"
      elements == d[field]
      toggled == [i \in DOMAIN elements |->
                    [elements[i] EXCEPT !.visibility = toggledVisibility(@)]]
  IN [dom |-> [d EXCEPT ![field] = toggled],
      ret |-> IF Len(elements) > 0 THEN toggled[1].visibility ELSE Undefined]

\* variant: the display is flipped whatever argument was passed
toggledDisplayIgnoringOn(previousDisplay, on) ==
  IF previousDisplay = "" \/ previousDisplay = "block" THEN "none" ELSE "block"

toggledDisplay(previousDisplay, on) ==
  IF on # Undefined
  THEN (IF on = "true" THEN "block" ELSE "none")
  ELSE (IF previousDisplay = "" \/ previousDisplay = "block"
        THEN "none" ELSE "block")

\* toggleDisplay is called for the page classes 'page-backs' and 'filler'
toggleDisplay(d, className, on) ==
  LET elements == PagesByClassName(d, className)
      toggled == [i \in DOMAIN d.pages |->
                    IF i \in elements
                    THEN [d.pages[i] EXCEPT !.display = toggledDisplay(@, on)]
                    ELSE d.pages[i]]
  IN [dom |-> [d EXCEPT !.pages = toggled],
      ret |-> IF elements # {} THEN toggled[Min(elements)].display ELSE Undefined]

\* variant: the opacity is set but the pointer events are left alone
toggleEnabilityOpacityOnly(d, element, on) ==
  [d EXCEPT !.style[element].opacity = IF on THEN "1" ELSE "0.2"]

toggleEnability(d, element, on) ==
  [d EXCEPT !.style[element].opacity = IF on THEN "1" ELSE "0.2",
            !.style[element].pointerEvents = IF on THEN "auto" ELSE "none"]

\* variant: both buttons get the display of the -on button
toggleButtonsSame(d, buttonOn, buttonOff, on) ==
  IF buttonOn \notin d.ids \/ buttonOff \notin d.ids THEN [d EXCEPT !.threw = TRUE]
  ELSE [d EXCEPT !.style[buttonOn].display = IF on THEN "inline" ELSE "none",
                 !.style[buttonOff].display = IF on THEN "inline" ELSE "none"]

\* document.getElementById gives null for a missing button, and the first
\* access to .style of null throws: the statements before it have taken effect
toggleButtons(d, buttonOn, buttonOff, on) ==
  IF buttonOn \notin d.ids THEN [d EXCEPT !.threw = TRUE]
  ELSE LET d1 == [d EXCEPT !.style[buttonOn].display =
                               IF on THEN "inline" ELSE "none"]
       IN IF buttonOff \notin d.ids THEN [d1 EXCEPT !.threw = TRUE]
          ELSE [d1 EXCEPT !.style[buttonOff].display =
                               IF on THEN "none" ELSE "inline"]

-----------------------------------------------------------------------------
(* Page numbers and totals.                                                *)

\* variant: every page is taken as visible, whatever its display
visiblePageElementsAll(pageElements, i) ==
  [k \in 1..(Len(pageElements) - i + 1) |-> k + i - 1]

RECURSIVE visiblePageElements(_, _)
visiblePageElements(pageElements, i) ==
  IF i > Len(pageElements) THEN <<>>
  ELSE (IF pageElements[i].display # "none" THEN <<i>> ELSE <<>>)
         \o visiblePageElements(pageElements, i + 1)

\* variant: the cards of page-backs pages are counted too
RECURSIVE totalCardCountWithBacks(_, _, _)
totalCardCountWithBacks(pageElements, visible, i) ==
  IF i > Len(visible) THEN 0
  ELSE LET visiblePageElement == pageElements[visible[i]]
       IN (IF visiblePageElement.cards > 0
           THEN visiblePageElement.cards - visiblePageElement.covers
           ELSE 0)
          + totalCardCountWithBacks(pageElements, visible, i + 1)

RECURSIVE totalCardCount(_, _, _)
totalCardCount(pageElements, visible, i) ==
  IF i > Len(visible) THEN 0
  ELSE LET visiblePageElement == pageElements[visible[i]]
       IN (IF ~elementHasClass(visiblePageElement, "page-backs")
              /\ visiblePageElement.cards > 0
           THEN visiblePageElement.cards - visiblePageElement.covers
           ELSE 0)
          + totalCardCount(pageElements, visible, i + 1)

pageNumberText(i, totalPageCount) ==
  "Page " \o ToString(i) \o " / " \o ToString(totalPageCount)

\* variant: the line break written without its space
statsTextTight(cardCount, pageCount) ==
  ToString(cardCount) \o " cards" \o "<br/>" \o ToString(pageCount) \o " pages"

statsText(cardCount, pageCount) ==
  ToString(cardCount) \o " cards" \o "<br />" \o ToString(pageCount) \o " pages"

\* variant: the stats text added to what the stats element holds
updatePageNumbersAppending(d) ==
  LET pageElements == d.pages
      visible == visiblePageElements(pageElements, 1)
      totalPageCount == Len(visible)
      numbered == [p \in DOMAIN pageElements |->
                     IF pageElements[p].display # "none" /\ pageElements[p].hasTag
                     THEN [pageElements[p] EXCEPT !.tag =
                             pageNumberText(
                               CHOOSE i \in DOMAIN visible : visible[i] = p,
                               totalPageCount)]
                     ELSE pageElements[p]]
      d1 == [d EXCEPT !.pages = numbered]
  IN IF "ui-stats" \in d.ids
     THEN [d1 EXCEPT !.stats =
             @ \o statsText(totalCardCount(pageElements, visible, 1), totalPageCount)]
     ELSE d1

updatePageNumbers(d) ==
  LET pageElements == d.pages
      visible == visiblePageElements(pageElements, 1)
      totalPageCount == Len(visible)
      numbered == [p \in DOMAIN pageElements |->
                     IF pageElements[p].display # "none" /\ pageElements[p].hasTag
                     THEN [pageElements[p] EXCEPT !.tag =
                             pageNumberText(
                               CHOOSE i \in DOMAIN visible : visible[i] = p,
                               totalPageCount)]
                     ELSE pageElements[p]]
      d1 == [d EXCEPT !.pages = numbered]
  IN IF "ui-stats" \in d.ids
     THEN [d1 EXCEPT !.stats =
             statsText(totalCardCount(pageElements, visible, 1), totalPageCount)]
     ELSE d1

-----------------------------------------------------------------------------
(* Named user actions.                                                     *)

\* variant: the cut guides toggled along with the footers
toggleFooterWithCutGuides(d) ==
  LET g == toggleVisibility(d, "cut-guide")
      r == toggleVisibility(g.dom, "page-footer")
  IN toggleButtons(r.dom, "toggle-footer-on", "toggle-footer-off",
                   r.ret = "visible")

\* variant: the -on button shown when the footers have just been hidden
toggleFooterInverted(d) ==
  LET r == toggleVisibility(d, "page-footer")
  IN toggleButtons(r.dom, "toggle-footer-on", "toggle-footer-off",
                   r.ret = "hidden")

toggleFooter(d) ==
  LET r == toggleVisibility(d, "page-footer")
  IN toggleButtons(r.dom, "toggle-footer-on", "toggle-footer-off",
                   r.ret = "visible")

toggleCutGuides(d) ==
  LET r == toggleVisibility(d, "cut-guide")
  IN toggleButtons(r.dom, "toggle-cut-guides-on", "toggle-cut-guides-off",
                   r.ret = "visible")

toggleTwoSided(d, on) ==
  LET r == toggleDisplay(d, "filler", on)
      d1 == toggleButtons(r.dom, "toggle-two-sided-on", "toggle-two-sided-off",
                          r.ret = "block")
  IN IF d1.threw THEN d1 ELSE updatePageNumbers(d1)

\* variant: the two-sided option enabled on what the call asked for, not on
\* what toggleDisplay returned
toggleCardBacksEnablingAsAsked(d) ==
  LET shouldToggleOn == ~isToggledOn(d, "toggle-card-backs-on")
      r == toggleDisplay(d, "page-backs",
                         IF shouldToggleOn THEN "true" ELSE "false")
      toggled == (r.ret = "block")
      d1 == toggleButtons(r.dom, "toggle-card-backs-on", "toggle-card-backs-off",
                          toggled)
      shouldToggleOffFillerPages == ~isToggledOn(d1, "toggle-two-sided-on")
      d2 == IF shouldToggleOffFillerPages THEN toggleTwoSided(d1, "false") ELSE d1
      d3 == IF "toggle-two-sided" \in d2.ids
            THEN toggleEnability(d2, "toggle-two-sided", shouldToggleOn)
            ELSE d2
  IN IF d1.threw THEN d1
     ELSE IF d2.threw THEN d2
     ELSE updatePageNumbers(d3)

\* variant: the closing updatePageNumbers() of toggleCardBacks left out
toggleCardBacksNoUpdate(d) ==
  LET shouldToggleOn == ~isToggledOn(d, "toggle-card-backs-on")
      r == toggleDisplay(d, "page-backs",
                         IF shouldToggleOn THEN "true" ELSE "false")
      toggled == (r.ret = "block")
      d1 == toggleButtons(r.dom, "toggle-card-backs-on", "toggle-card-backs-off",
                          toggled)
      shouldToggleOffFillerPages == ~isToggledOn(d1, "toggle-two-sided-on")
      d2 == IF shouldToggleOffFillerPages THEN toggleTwoSided(d1, "false") ELSE d1
  IN IF d1.threw THEN d1
     ELSE IF d2.threw THEN d2
     ELSE IF "toggle-two-sided" \in d2.ids
     THEN toggleEnability(d2, "toggle-two-sided", toggled)
     ELSE d2

\* variant: the two-sided option made to follow the backs option, on and off
\* (what the revision in src/cards/templates/base/js/index.js does)
toggleCardBacksFollow(d) ==
  LET shouldToggleOn == ~isToggledOn(d, "toggle-card-backs-on")
      r == toggleDisplay(d, "page-backs",
                         IF shouldToggleOn THEN "true" ELSE "false")
      toggled == (r.ret = "block")
      d1 == toggleButtons(r.dom, "toggle-card-backs-on", "toggle-card-backs-off",
                          toggled)
      d2 == toggleTwoSided(d1, IF toggled THEN "true" ELSE "false")
      d3 == IF "toggle-two-sided" \in d2.ids
            THEN toggleEnability(d2, "toggle-two-sided", toggled)
            ELSE d2
  IN IF d1.threw THEN d1
     ELSE IF d2.threw THEN d2
     ELSE updatePageNumbers(d3)

toggleCardBacks(d) ==
  LET shouldToggleOn == ~isToggledOn(d, "toggle-card-backs-on")
      r == toggleDisplay(d, "page-backs",
                         IF shouldToggleOn THEN "true" ELSE "false")
      toggled == (r.ret = "block")
      d1 == toggleButtons(r.dom, "toggle-card-backs-on", "toggle-card-backs-off",
                          toggled)
      shouldToggleOffFillerPages == ~isToggledOn(d1, "toggle-two-sided-on")
      d2 == IF shouldToggleOffFillerPages THEN toggleTwoSided(d1, "false") ELSE d1
      d3 == IF "toggle-two-sided" \in d2.ids
            THEN toggleEnability(d2, "toggle-two-sided", toggled)
            ELSE d2
  IN IF d1.threw THEN d1
     ELSE IF d2.threw THEN d2
     ELSE updatePageNumbers(d3)

-----------------------------------------------------------------------------
(* src/cards/templates/base/js/index.js as shipped.  The file declares      *)
(* removeOverlappingCutGuides, toggleVisibility, toggleButtons,            *)
(* toggleFooter, toggleCutGuides and toggleHelp twice with the same text,   *)
(* and assigns window.onload twice: the assignment at its end is the one   *)
(* in force when the load event fires.  Its toggleDisplay, toggleButtons   *)
(* and toggleEnability are those of the latest revision; its               *)
(* updatePageNumbers does not discount cover-sized cards.                  *)

\* the card total of updatePageNumbers, index.js lines 199-206
RECURSIVE totalCardCountEarlier(_, _, _)
totalCardCountEarlier(pageElements, visible, i) ==
  IF i > Len(visible) THEN 0
  ELSE LET visiblePageElement == pageElements[visible[i]]
       IN (IF ~elementHasClass(visiblePageElement, "page-backs")
              /\ visiblePageElement.cards > 0
           THEN visiblePageElement.cards
           ELSE 0)
          + totalCardCountEarlier(pageElements, visible, i + 1)

\* updatePageNumbers, index.js lines 175-228
updatePageNumbersEarlier(d) ==
  LET pageElements == d.pages
      visible == visiblePageElements(pageElements, 1)
      totalPageCount == Len(visible)
      numbered == [p \in DOMAIN pageElements |->
                     IF pageElements[p].display # "none" /\ pageElements[p].hasTag
                     THEN [pageElements[p] EXCEPT !.tag =
                             pageNumberText(
                               CHOOSE i \in DOMAIN visible : visible[i] = p,
                               totalPageCount)]
                     ELSE pageElements[p]]
      d1 == [d EXCEPT !.pages = numbered]
  IN IF "ui-stats" \in d.ids
     THEN [d1 EXCEPT !.stats =
             statsText(totalCardCountEarlier(pageElements, visible, 1),
                       totalPageCount)]
     ELSE d1

\* toggleTwoSided, index.js lines 142-147
toggleTwoSidedEarlier(d, on) ==
  LET r == toggleDisplay(d, "filler", on)
      d1 == toggleButtons(r.dom, "toggle-two-sided-on", "toggle-two-sided-off",
                          r.ret = "block")
  IN IF d1.threw THEN d1 ELSE updatePageNumbersEarlier(d1)

\* toggleCardBacks, index.js lines 107-123: the display of the page-backs
\* pages is flipped (no argument), and the two-sided option is made to
\* follow the result
toggleCardBacksEarlier(d) ==
  LET r == toggleDisplay(d, "page-backs", Undefined)
      toggledOn == (r.ret = "block")
      d1 == toggleButtons(r.dom, "toggle-card-backs-on", "toggle-card-backs-off",
                          toggledOn)
      d2 == toggleTwoSidedEarlier(d1, IF toggledOn THEN "true" ELSE "false")
      d3 == IF "toggle-two-sided" \in d2.ids
            THEN toggleEnability(d2, "toggle-two-sided", toggledOn)
            ELSE d2
  IN IF d1.threw THEN d1
     ELSE IF d2.threw THEN d2
     ELSE updatePageNumbersEarlier(d3)

\* the button pairs that call hands to toggleButtons: the card-backs pair,
\* and through toggleTwoSided the two-sided pair unless the first call threw
pairsToggledEarlier(d) ==
  LET r == toggleDisplay(d, "page-backs", Undefined)
      d1 == toggleButtons(r.dom, "toggle-card-backs-on", "toggle-card-backs-off",
                          r.ret = "block")
  IN IF d1.threw THEN {"card-backs"} ELSE {"card-backs", "two-sided"}

\* the button pairs toggleCardBacks of the latest revision hands to
\* toggleButtons: the card-backs pair, and through toggleTwoSided(false) the
\* two-sided pair when the first call did not throw and two-sided is off
pairsToggled(d) ==
  LET shouldToggleOn == ~isToggledOn(d, "toggle-card-backs-on")
      r == toggleDisplay(d, "page-backs",
                         IF shouldToggleOn THEN "true" ELSE "false")
      d1 == toggleButtons(r.dom, "toggle-card-backs-on", "toggle-card-backs-off",
                          r.ret = "block")
  IN IF ~d1.threw /\ ~isToggledOn(d1, "toggle-two-sided-on")
     THEN {"card-backs", "two-sided"} ELSE {"card-backs"}

-----------------------------------------------------------------------------
(* Help modal.  window.onclick is "null" or the closure toggleHelp(true)    *)
(* installs, "closeHelp".                                                  *)

\* variant: hiding the modal leaves the window handler in place
toggleHelpKeepsHandler(d, on) ==
  IF "ui-modal-help" \in d.ids
  THEN [d EXCEPT !.style["ui-modal-help"].display =
                     IF on = "true" THEN "block" ELSE "none",
                 !.onclick = IF on = "true" THEN "closeHelp" ELSE @]
  ELSE d

\* `on` is tested for truthiness: an omitted argument counts as false
toggleHelp(d, on) ==
  IF "ui-modal-help" \in d.ids
  THEN [d EXCEPT !.style["ui-modal-help"].display =
                     IF on = "true" THEN "block" ELSE "none",
                 !.onclick = IF on = "true" THEN "closeHelp" ELSE "null"]
  ELSE d

\* variant: the handler closes the modal wherever the click lands
windowClickAnywhere(d, target) ==
  IF d.onclick = "closeHelp" THEN toggleHelp(d, "false") ELSE d

\* a click reaching the window: window.onclick, when set, is called with the
\* element the click landed on
windowClick(d, target) ==
  IF d.onclick = "closeHelp"
  THEN (IF target = "ui-modal-help" THEN toggleHelp(d, "false") ELSE d)
  ELSE d

-----------------------------------------------------------------------------
(* Load-time steps.                                                        *)

RECURSIVE disableAll(_, _)
disableAll(d, actionElements) ==
  IF actionElements = {} THEN d
  ELSE LET a == CHOOSE x \in actionElements : TRUE
       IN disableAll(toggleEnability(d, a, FALSE), actionElements \ {a})

\* variant: the actions are disabled whether or not the document has pages
disableActionsIfNecessaryAlways(d) ==
  IF "ui-toolbar-inner" \in d.ids THEN disableAll(d, d.actions) ELSE d

\* d.actions are the 'ui-action' elements inside 'ui-toolbar-inner'
disableActionsIfNecessary(d) ==
  IF PagesByClassName(d, "page") = {} /\ "ui-toolbar-inner" \in d.ids
  THEN disableAll(d, d.actions)
  ELSE d

\* variant: only the card-backs control is hidden
determineBacksToggleVisibilityBacksOnly(d) ==
  IF PagesByClassName(d, "page-backs") = {} /\ "toggle-card-backs" \in d.ids
  THEN [d EXCEPT !.style["toggle-card-backs"].display = "none"]
  ELSE d

determineBacksToggleVisibility(d) ==
  IF PagesByClassName(d, "page-backs") = {}
  THEN LET d1 == IF "toggle-card-backs" \in d.ids
                 THEN [d EXCEPT !.style["toggle-card-backs"].display = "none"]
                 ELSE d
       IN IF "toggle-two-sided" \in d1.ids
          THEN [d1 EXCEPT !.style["toggle-two-sided"].display = "none"]
          ELSE d1
  ELSE d

revealUI(d) ==
  IF "toolbar" \in d.ids
  THEN [d EXCEPT !.toolbarClass = "ui-toolbar ui-toolbar-revealed do-not-print"]
  ELSE d

\* window.onload of index.js: the handler assigned last, lines 356-358 (the
\* one assigned at lines 257-271 is replaced before the load event fires)
onloadEarlier(d) == removeOverlappingCutGuides(d)

\* variant: the overlapping cut guides removed before the cut guides on covers
onloadOverlapsFirst(d) ==
  LET d1 == determineBacksToggleVisibility(
              disableActionsIfNecessary(
                removeEmptyFooterTags(
                  removeCutGuidesOnCover(
                    removeOverlappingCutGuides(d)))))
  IN toggleTwoSided(d1, "false")

\* variant: the load handler switching two-sided printing on
onloadTwoSidedOn(d) ==
  LET d1 == determineBacksToggleVisibility(
              disableActionsIfNecessary(
                removeEmptyFooterTags(
                  removeOverlappingCutGuides(
                    removeCutGuidesOnCover(d)))))
  IN toggleTwoSided(d1, "true")

\* variant: the load handler without its determineBacksToggleVisibility() call
onloadWithoutBacksToggle(d) ==
  LET d1 == disableActionsIfNecessary(
              removeEmptyFooterTags(
                removeOverlappingCutGuides(
                  removeCutGuidesOnCover(d))))
  IN toggleTwoSided(d1, "false")

\* variant: the load handler without its removeEmptyFooterTags() call
onloadWithoutFooterTags(d) ==
  LET d1 == determineBacksToggleVisibility(
              disableActionsIfNecessary(
                removeOverlappingCutGuides(
                  removeCutGuidesOnCover(d))))
  IN toggleTwoSided(d1, "false")

\* the synchronous part of window.onload; the timer is set by the action
onload(d) ==
  LET d1 == determineBacksToggleVisibility(
              disableActionsIfNecessary(
                removeEmptyFooterTags(
                  removeOverlappingCutGuides(
                    removeCutGuidesOnCover(d)))))
  IN toggleTwoSided(d1, "false")

-----------------------------------------------------------------------------
(* Documents.                                                              *)

\* the on/off buttons as the template marks them up: the -on member shown,
\* the -off member carrying display:none
TemplateButtons ==
  [id \in AllIds |->
     IF id \in {ButtonOff(p) : p \in ButtonPairs}
     THEN [NoStyle EXCEPT !.display = "none"]
     ELSE NoStyle]

EmptyDocument ==
  [pages |-> <<>>, guides |-> <<>>, coverCards |-> 0, footers |-> <<>>,
   footerContents |-> <<>>,
   ids |-> AllIds, actions |-> {}, style |-> TemplateButtons, stats |-> "",
   toolbarClass |-> "ui-toolbar do-not-print", onclick |-> "null",
   threw |-> FALSE]

SeqsUpTo(S, n) == UNION {[1..k -> S] : k \in 0..n}

Frame(l, r, t, b) == [left |-> l, right |-> r, top |-> t, bottom |-> b]

\* a cut guide: its bounding rectangle and the cover-sized card it lies in
\* (the position of that card among the cover-sized cards, 0 for none)
Guide(id, frame, cover) ==
  [id |-> id, left |-> frame.left, right |-> frame.right, top |-> frame.top,
   bottom |-> frame.bottom, cover |-> cover, visibility |-> ""]

\* a freshly generated page: no inline display, nothing in its number tag
GeneratedPages ==
  [classes : SUBSET {"page-backs", "filler"}, hasTag : BOOLEAN,
   cards : {1}, covers : {0}, display : {""}, tag : {""}]

\* what the sheets explored by the life-cycle specification carry besides
\* pages: nothing at all, or two touching cut guides, a cut guide inside a
\* cover-sized card touched by a cut guide outside it, two footers and two
\* footer-content blocks (the first one blank)
GeneratedDecoration ==
  {[guides |-> <<>>, coverCards |-> 0, footers |-> <<>>, footerContents |-> <<>>],
   [guides |-> <<Guide(1, Frame(0, 1, 0, 1), 0),
                 Guide(2, Frame(1, 2, 0, 1), 0),
                 Guide(3, Frame(0, 1, 2, 3), 1),
                 Guide(4, Frame(0, 1, 3, 4), 0)>>,
    coverCards |-> 1,
    footers |-> <<[visibility |-> ""], [visibility |-> ""]>>,
    footerContents |-> <<[id |-> 1, innerHTML |-> <<" ">>],
                         [id |-> 2, innerHTML |-> <<"a">>]>>]}

\* the guarded elements a generated document may lack
GeneratedMissing == {{}, {"ui-stats", "toggle-two-sided", "toggle-card-backs"}}

-----------------------------------------------------------------------------
(* Life cycle of one generated document: load, deferred reveal, buttons.   *)

\* the on/off state the button pairs show, as isToggledOn reads it, and
\* whether the help modal is up
Shown(d) ==
  [backs |-> isToggledOn(d, "toggle-card-backs-on"),
   twoSided |-> isToggledOn(d, "toggle-two-sided-on"),
   help |-> d.style["ui-modal-help"].display = "block"]

\* no removal loop is being followed
NoLoop ==
  [pc |-> "idle", i |-> 0, j |-> 0, n |-> 0, held |-> Frame(0, 0, 0, 0),
   fault |-> FALSE]

Generated(d) ==
  /\ loop = NoLoop
  /\ dom = d
  /\ source = d
  /\ phase = "document"
  /\ timer = "none"
  /\ lastOp = "none"
  /\ returned = Undefined
  /\ pre = Shown(d)
  /\ buttonsSet = {}

Init ==
  \E pages \in SeqsUpTo(GeneratedPages, MaxPages),
     decoration \in GeneratedDecoration,
     missing \in GeneratedMissing :
    \* the plain sheets are the ones explored without the guarded elements,
    \* and the ones explored with pages that lack a number tag
    /\ decoration.guides = <<>> <=> missing # {}
    /\ missing = {} => \A k \in DOMAIN pages : pages[k].hasTag
    /\ Generated([EmptyDocument EXCEPT
                    !.pages = pages, !.guides = decoration.guides,
                    !.coverCards = decoration.coverCards,
                    !.footers = decoration.footers,
                    !.footerContents = decoration.footerContents,
                    !.ids = AllIds \ missing,
                    !.actions = {"toggle-card-backs", "toggle-two-sided"} \ missing])

\* call `op` ran to its end (or to its exception), left document d and
\* returned `ret`
RanWith(op, d, pairs, ret) ==
  /\ dom' = d
  /\ lastOp' = op
  /\ returned' = ret
  /\ pre' = Shown(dom)
  /\ buttonsSet' = buttonsSet \cup pairs
  /\ UNCHANGED <<source, loop>>

\* handler `op` ran to its end (or to its exception) and left document d; a
\* handler returns nothing
Ran(op, d, pairs) == RanWith(op, d, pairs, Undefined)

Started == [dom EXCEPT !.threw = FALSE]

Load ==
  /\ phase = "document"
  /\ LET d == onload(Started)
     IN /\ Ran("onload", d, {"two-sided"})
        /\ phase' = IF d.threw THEN "failed" ELSE "loaded"
        /\ timer' = IF d.threw THEN "none" ELSE "pending"

RevealUI ==
  /\ timer = "pending"
  /\ Ran("revealUI", revealUI(Started), {})
  /\ timer' = "fired"
  /\ UNCHANGED phase

ToggleFooter ==
  /\ phase \in {"loaded", "failed"}
  /\ Ran("toggleFooter", toggleFooter(Started), {"footer"})
  /\ UNCHANGED <<phase, timer>>

ToggleCutGuides ==
  /\ phase \in {"loaded", "failed"}
  /\ Ran("toggleCutGuides", toggleCutGuides(Started), {"cut-guides"})
  /\ UNCHANGED <<phase, timer>>

ToggleTwoSided ==
  /\ phase \in {"loaded", "failed"}
  /\ Ran("toggleTwoSided", toggleTwoSided(Started, Undefined), {"two-sided"})
  /\ UNCHANGED <<phase, timer>>

ToggleCardBacks ==
  /\ phase \in {"loaded", "failed"}
  /\ Ran("toggleCardBacks", toggleCardBacks(Started), pairsToggled(Started))
  /\ UNCHANGED <<phase, timer>>

Next ==
  \/ Load
  \/ RevealUI
  \/ ToggleFooter
  \/ ToggleCutGuides
  \/ ToggleTwoSided
  \/ ToggleCardBacks

Spec == Init /\ [][Next]_vars

-----------------------------------------------------------------------------
(* Life cycle of a generated document under index.js as shipped: load,     *)
(* which sets no timer, then the card-backs and two-sided buttons.         *)

LoadEarlier ==
  /\ phase = "document"
  /\ Ran("onload", onloadEarlier(Started), {})
  /\ phase' = "loaded"
  /\ UNCHANGED timer

ToggleTwoSidedEarlier ==
  /\ phase \in {"loaded", "failed"}
  /\ Ran("toggleTwoSided", toggleTwoSidedEarlier(Started, Undefined), {"two-sided"})
  /\ UNCHANGED <<phase, timer>>

ToggleCardBacksEarlier ==
  /\ phase \in {"loaded", "failed"}
  /\ Ran("toggleCardBacks", toggleCardBacksEarlier(Started),
         pairsToggledEarlier(Started))
  /\ UNCHANGED <<phase, timer>>

NextEarlier ==
  \/ LoadEarlier
  \/ ToggleTwoSidedEarlier
  \/ ToggleCardBacksEarlier

SpecEarlier == Init /\ [][NextEarlier]_vars

-----------------------------------------------------------------------------
(* The same life cycle for documents that lack elements the script looks   *)
(* up by id.                                                               *)

\* one button pair missing, or only its -off member, or the elements whose
\* lookups the script guards
AbsentElements ==
  {{ButtonOn(p), ButtonOff(p)} : p \in ButtonPairs}
    \cup {{ButtonOff(p)} : p \in ButtonPairs}
    \cup {{"ui-stats", "toolbar", "ui-toolbar-inner"}}

\* a generated page with the given classes
GeneratedPage(classes) ==
  [classes |-> classes, hasTag |-> TRUE, cards |-> 1, covers |-> 0,
   display |-> "", tag |-> ""]

\* the sheets these documents carry: no page, one front page, or a front
\* page followed by its back page and a filler page
AbsentPages ==
  {<<>>,
   <<GeneratedPage({})>>,
   <<GeneratedPage({}), GeneratedPage({"page-backs"}), GeneratedPage({"filler"})>>}

InitAbsent ==
  \E pages \in AbsentPages,
     decoration \in GeneratedDecoration,
     missing \in AbsentElements :
    Generated([EmptyDocument EXCEPT
                 !.pages = pages, !.guides = decoration.guides,
                 !.coverCards = decoration.coverCards,
                 !.footers = decoration.footers,
                 !.footerContents = decoration.footerContents,
                 !.ids = AllIds \ missing,
                 !.actions = IF "ui-toolbar-inner" \in missing THEN {}
                             ELSE {"toggle-card-backs", "toggle-two-sided"}])

NextAbsent ==
  \/ Load
  \/ RevealUI
  \/ ToggleFooter
  \/ ToggleCutGuides
  \/ ToggleTwoSided
  \/ ToggleCardBacks

SpecAbsent == InitAbsent /\ [][NextAbsent]_vars

\* the load event firing, seen on `phase` alone: Load is the one action that
\* leaves phase "document", and it is enabled in every such state
LoadFires == phase = "document" /\ phase' \in {"loaded", "failed"}

\* the timer callback running, seen on `timer` alone: RevealUI is the one
\* action that leaves timer "pending", and it is enabled in every such state
TimerFires == timer = "pending" /\ timer' = "fired"

\* the browser fires the load event of a document that has finished loading,
\* and runs the callback of a timer that has been set
SpecAbsentFair == SpecAbsent /\ WF_phase(LoadFires) /\ WF_timer(TimerFires)

-----------------------------------------------------------------------------
(* updatePageNumbers applied once to an arbitrary document.                *)

UpdatePageNumbers ==
  /\ phase = "document"
  /\ Ran("updatePageNumbers", updatePageNumbers(Started), {})
  /\ phase' = "done"
  /\ UNCHANGED timer

\* pages in any display state, with or without a number tag
NumberedPages ==
  [classes : {{}}, hasTag : BOOLEAN, cards : {0}, covers : {0},
   display : {"", "block", "none"}, tag : {"-"}]

InitNumbers ==
  \E pages \in SeqsUpTo(NumberedPages, MaxNumbered), missing \in SUBSET {"ui-stats"} :
    Generated([EmptyDocument EXCEPT !.pages = pages, !.ids = AllIds \ missing])

NextNumbers == UpdatePageNumbers

SpecNumbers == InitNumbers /\ [][NextNumbers]_vars

\* front and back pages, displayed or not, holding cards, some of them
\* cover-sized (a cover is a card: it carries both classes)
CountedPages ==
  {pg \in [classes : SUBSET {"page-backs"}, hasTag : {TRUE}, cards : 0..MaxCards,
           covers : 0..MaxCards, display : {"", "none"}, tag : {"-"}] :
     pg.covers <= pg.cards}

InitStats ==
  \E pages \in SeqsUpTo(CountedPages, MaxCounted) :
    Generated([EmptyDocument EXCEPT !.pages = pages])

NextStats == UpdatePageNumbers

SpecStats == InitStats /\ [][NextStats]_vars

\* the sheet of two front pages with 4 and 3 cards and one back page with 2
\* cards, in any document order, every page displayed
ScenarioPage(backs, cards, hasTag, display) ==
  [classes |-> IF backs THEN {"page-backs"} ELSE {}, hasTag |-> hasTag,
   cards |-> cards, covers |-> 0, display |-> display, tag |-> "-"]

InitScenario ==
  \E order \in {<<4, 3, 2>>, <<3, 4, 2>>, <<4, 2, 3>>, <<3, 2, 4>>,
                 <<2, 4, 3>>, <<2, 3, 4>>},
     hasTag \in [1..3 -> BOOLEAN],
     display \in [1..3 -> {"", "block"}] :
    Generated([EmptyDocument EXCEPT
                 !.pages = [k \in 1..3 |->
                              ScenarioPage(order[k] = 2, order[k], hasTag[k],
                                           display[k])]])

NextScenario == UpdatePageNumbers

SpecScenario == InitScenario /\ [][NextScenario]_vars

-----------------------------------------------------------------------------
(* updatePageNumbers called twice in a row.                                *)

\* front and back pages, displayed or not, with or without cards and a number
\* tag, the tag fresh or holding the text of an earlier numbering
RenumberedPages ==
  [classes : SUBSET {"page-backs"}, hasTag : BOOLEAN, cards : {0, MaxCards},
   covers : {0}, display : {"", "none"}, tag : {"-", pageNumberText(1, 1)}]

InitTwice ==
  \E pages \in SeqsUpTo(RenumberedPages, MaxPages),
     decoration \in GeneratedDecoration,
     missing \in SUBSET {"ui-stats"} :
    Generated([EmptyDocument EXCEPT
                 !.pages = pages, !.guides = decoration.guides,
                 !.coverCards = decoration.coverCards,
                 !.footers = decoration.footers,
                 !.footerContents = decoration.footerContents,
                 !.ids = AllIds \ missing])

UpdatePageNumbersOnce ==
  /\ phase = "document"
  /\ Ran("updatePageNumbers", updatePageNumbers(Started), {})
  /\ phase' = "once"
  /\ UNCHANGED timer

UpdatePageNumbersTwice ==
  /\ phase = "once"
  /\ Ran("updatePageNumbers", updatePageNumbers(Started), {})
  /\ phase' = "twice"
  /\ UNCHANGED timer

NextTwice == UpdatePageNumbersOnce \/ UpdatePageNumbersTwice

SpecTwice == InitTwice /\ [][NextTwice]_vars

-----------------------------------------------------------------------------
(* removeOverlappingCutGuides applied once to arbitrary cut guides.        *)

\* bounding rectangles one or two units wide anywhere within 0..MaxCoord, on
\* one of two rows that do not touch each other
Frames ==
  {Frame(x[1], x[2], t, t + 1) :
     x \in {y \in (0..MaxCoord) \X (0..MaxCoord) : y[1] <= y[2] /\ y[2] <= y[1] + 1},
     t \in {0, 2}}

InitGuides ==
  \E frames \in SeqsUpTo(Frames, MaxGuides) :
    Generated([EmptyDocument EXCEPT
                 !.guides = [k \in DOMAIN frames |-> Guide(k, frames[k], 0)]])

RemoveOverlappingCutGuides ==
  /\ phase = "document"
  /\ Ran("removeOverlappingCutGuides", removeOverlappingCutGuides(Started), {})
  /\ phase' = "done"
  /\ UNCHANGED timer

NextGuides == RemoveOverlappingCutGuides

SpecGuides == InitGuides /\ [][NextGuides]_vars

-----------------------------------------------------------------------------
(* removeEmptyFooterTags applied once to arbitrary footer-content blocks.   *)

\* inner HTML of a footer-content block: nothing, white space only, text, or
\* text surrounded by white space
FooterContents ==
  {<<>>, <<" ">>, <<"\r", "\n">>, <<"a">>, <<"\t", "a", "\f">>}

InitFooters ==
  \E contents \in SeqsUpTo(FooterContents, MaxFooters) :
    Generated([EmptyDocument EXCEPT
                 !.footerContents =
                    [k \in DOMAIN contents |-> [id |-> k, innerHTML |-> contents[k]]]])

RemoveEmptyFooterTags ==
  /\ phase = "document"
  /\ Ran("removeEmptyFooterTags", removeEmptyFooterTags(Started), {})
  /\ phase' = "done"
  /\ UNCHANGED timer

NextFooters == RemoveEmptyFooterTags

SpecFooters == InitFooters /\ [][NextFooters]_vars

-----------------------------------------------------------------------------
(* removeCutGuidesOnCover applied once to cut guides in and out of covers.  *)

InitCovers ==
  \E coverCards \in 0..MaxCovers :
    \E where \in SeqsUpTo(0..coverCards, MaxGuides) :
      Generated([EmptyDocument EXCEPT
                   !.coverCards = coverCards,
                   !.guides = [k \in DOMAIN where |->
                                 Guide(k, Frame(0, 1, 0, 1), where[k])]])

RemoveCutGuidesOnCover ==
  /\ phase = "document"
  /\ Ran("removeCutGuidesOnCover", removeCutGuidesOnCover(Started), {})
  /\ phase' = "done"
  /\ UNCHANGED timer

NextCovers == RemoveCutGuidesOnCover

SpecCovers == InitCovers /\ [][NextCovers]_vars

-----------------------------------------------------------------------------
(* toggleVisibility called twice in succession on one class.               *)

Visibilities == {"", "visible", "hidden"}

InitVisibility ==
  \E footers \in SeqsUpTo(Visibilities, MaxToggled),
     guides \in SeqsUpTo(Visibilities, MaxToggled) :
    Generated([EmptyDocument EXCEPT
                 !.footers = [k \in DOMAIN footers |-> [visibility |-> footers[k]]],
                 !.guides = [k \in DOMAIN guides |->
                               [Guide(k, Frame(0, 1, 0, 1), 0)
                                  EXCEPT !.visibility = guides[k]]]])

\* the first call on a class, then the second call on the same class
ToggleVisibility ==
  \E className \in {"page-footer", "cut-guide"} :
    /\ phase \in {"document", "once"}
    /\ phase = "once" => lastOp = "toggleVisibility " \o className
    /\ LET r == toggleVisibility(Started, className)
       IN RanWith("toggleVisibility " \o className, r.dom, {}, r.ret)
    /\ phase' = IF phase = "document" THEN "once" ELSE "twice"
    /\ UNCHANGED timer

NextVisibility == ToggleVisibility

SpecVisibility == InitVisibility /\ [][NextVisibility]_vars

-----------------------------------------------------------------------------
(* removeOverlappingCutGuides applied once to two cut guides placed         *)
(* anywhere on a grid, so that their rectangles may be apart, share a       *)
(* corner, share an edge, or cover each other.                              *)

\* bounding rectangles one unit high and none or one unit wide, anywhere
\* within 0..MaxCoord in both directions
GridFrames ==
  {Frame(x[1], x[2], t, t + 1) :
     x \in {y \in (0..MaxCoord) \X (0..MaxCoord) : y[1] <= y[2] /\ y[2] <= y[1] + 1},
     t \in 0..MaxCoord}

InitPair ==
  \E frames \in [1..2 -> GridFrames] :
    Generated([EmptyDocument EXCEPT
                 !.guides = [k \in DOMAIN frames |-> Guide(k, frames[k], 0)]])

NextPair == RemoveOverlappingCutGuides

SpecPair == InitPair /\ [][NextPair]_vars

-----------------------------------------------------------------------------
(* The load handler on documents whose cut guides lie in a row, inside or   *)
(* outside one cover-sized card.                                           *)

\* the bounding rectangles of the upper row
RowFrames == {f \in Frames : f.top = 0}

InitLoadGuides ==
  \E frames \in SeqsUpTo(RowFrames \X {0, 1}, MaxGuides) :
    Generated([EmptyDocument EXCEPT
                 !.coverCards = 1,
                 !.guides = [k \in DOMAIN frames |->
                               Guide(k, frames[k][1], frames[k][2])]])

NextLoadGuides == Load

SpecLoadGuides == InitLoadGuides /\ [][NextLoadGuides]_vars

-----------------------------------------------------------------------------
(* removeCutGuidesOnCover and removeOverlappingCutGuides followed one loop  *)
(* test at a time.  `loop` holds the program counter, the indices i and j,  *)
(* the length of the collection when the function started and the frame    *)
(* read for the element of the outer loop; indices count from 1.           *)

\* two rectangles that touch each other and one apart from both
LoopFrames == {Frame(0, 1, 0, 1), Frame(1, 2, 0, 1), Frame(0, 1, 2, 3)}

InitSteps ==
  \/ \E where \in SeqsUpTo(0..MaxCovers, MaxLoopGuides) :
       Generated([EmptyDocument EXCEPT
                    !.coverCards = MaxCovers,
                    !.guides = [k \in DOMAIN where |->
                                  Guide(k, Frame(0, 1, 0, 1), where[k])]])
  \/ \E frames \in SeqsUpTo(LoopFrames, MaxLoopGuides) :
       Generated([EmptyDocument EXCEPT
                    !.guides = [k \in DOMAIN frames |-> Guide(k, frames[k], 0)]])

\* the loop registers l are those of the next step; the function has come to
\* its end when they say so
Stepped(l) ==
  /\ loop' = l
  /\ phase' = IF l.pc \in {"returned", "threw"} THEN "done" ELSE phase
  /\ UNCHANGED <<timer, returned, pre, source, buttonsSet>>

\* the live collection of the cut guides inside the i-th cover
cutGuideElements(guides, i) == {k \in DOMAIN guides : guides[k].cover = i}

\* removeCutGuidesOnCover is called: `if (coverCardElements.length > 0)`
CoverCall ==
  /\ phase = "document" /\ loop.pc = "idle"
  /\ lastOp' = "removeCutGuidesOnCover"
  /\ Stepped([NoLoop EXCEPT
                !.pc = IF dom.coverCards > 0 THEN "cover-for" ELSE "returned",
                !.i = 1])
  /\ UNCHANGED dom

\* `i < coverCardElements.length` and `if (cutGuideElements.length > 0)`
CoverFor ==
  /\ loop.pc = "cover-for"
  /\ Stepped(IF loop.i > dom.coverCards THEN [loop EXCEPT !.pc = "returned"]
             ELSE IF cutGuideElements(dom.guides, loop.i) # {}
             THEN [loop EXCEPT !.pc = "cover-while"]
             ELSE [loop EXCEPT !.i = @ + 1])
  /\ UNCHANGED <<dom, lastOp>>

\* `while ((cutGuideElement = cutGuideElements[0]))` and its body
CoverWhile ==
  /\ loop.pc = "cover-while"
  /\ IF cutGuideElements(dom.guides, loop.i) = {}
     THEN /\ Stepped([loop EXCEPT !.pc = "cover-for", !.i = @ + 1])
          /\ UNCHANGED dom
     ELSE /\ dom' = [dom EXCEPT !.guides =
                       RemoveAt(@, Min(cutGuideElements(@, loop.i)))]
          /\ Stepped(loop)
  /\ UNCHANGED lastOp

\* variant: the length read once, when the function starts
lengthAtStart(elements, n) == n

\* `elements.length` in a loop test: the length the live collection has now
liveLength(elements, n) == Len(elements)

\* removeOverlappingCutGuides is called: `if (elements.length > 0)`
OverlapCall ==
  /\ phase = "document" /\ loop.pc = "idle"
  /\ lastOp' = "removeOverlappingCutGuides"
  /\ Stepped([NoLoop EXCEPT
                !.pc = IF Len(dom.guides) > 0 THEN "outer" ELSE "returned",
                !.i = 1, !.n = Len(dom.guides)])
  /\ UNCHANGED dom

\* `i < elements.length`, `elements[i]` and its getBoundingClientRect(); an
\* index past the end gives undefined, and the call on it throws
OuterTest ==
  /\ loop.pc = "outer"
  /\ Stepped(IF loop.i > liveLength(dom.guides, loop.n)
             THEN [loop EXCEPT !.pc = "returned"]
             ELSE IF loop.i > Len(dom.guides)
             THEN [loop EXCEPT !.pc = "threw", !.fault = TRUE]
             ELSE [loop EXCEPT !.pc = "inner", !.j = 1,
                               !.held = dom.guides[loop.i]])
  /\ UNCHANGED <<dom, lastOp>>

\* `j < elements.length`, `i == j`, `elements[j]`, the overlap test and the
\* removal
InnerStep ==
  /\ loop.pc = "inner"
  /\ IF loop.j > liveLength(dom.guides, loop.n)
     THEN /\ Stepped([loop EXCEPT !.pc = "outer", !.i = @ + 1])
          /\ UNCHANGED dom
     ELSE IF loop.i = loop.j
     THEN /\ Stepped([loop EXCEPT !.j = @ + 1])
          /\ UNCHANGED dom
     ELSE IF loop.j > Len(dom.guides)
     THEN /\ Stepped([loop EXCEPT !.pc = "threw", !.fault = TRUE])
          /\ UNCHANGED dom
     ELSE /\ dom' = IF overlap(loop.held, dom.guides[loop.j])
                    THEN [dom EXCEPT !.guides = RemoveAt(@, loop.j)]
                    ELSE dom
          /\ Stepped([loop EXCEPT !.j = @ + 1])
  /\ UNCHANGED lastOp

NextSteps ==
  \/ CoverCall
  \/ CoverFor
  \/ CoverWhile
  \/ OverlapCall
  \/ OuterTest
  \/ InnerStep

SpecSteps == InitSteps /\ [][NextSteps]_vars

\* the script runs on one thread and nothing else is scheduled: a function
\* that has a next step takes it
SpecStepsFair == SpecSteps /\ WF_<<dom, loop>>(NextSteps)

-----------------------------------------------------------------------------
(* The help modal: toggleHelp calls and clicks reaching the window, in any  *)
(* order, on a generated document with or without the modal element.       *)

\* where a click can land: the modal backdrop, the content inside the modal,
\* a toolbar button
ClickTargets == {"ui-modal-help", "ui-modal-content", "toggle-footer-on"}

InitHelp ==
  \E pages \in SeqsUpTo(GeneratedPages, MaxPages), missing \in SUBSET {"ui-modal-help"} :
    Generated([EmptyDocument EXCEPT !.pages = pages, !.ids = AllIds \ missing])

ToggleHelp ==
  \E on \in OnArgs :
    /\ Ran("toggleHelp " \o on, toggleHelp(Started, on), {})
    /\ UNCHANGED <<phase, timer>>

WindowClick ==
  \E target \in ClickTargets :
    /\ Ran("click " \o target, windowClick(Started, target), {})
    /\ UNCHANGED <<phase, timer>>

NextHelp ==
  \/ ToggleHelp
  \/ WindowClick

SpecHelp == InitHelp /\ [][NextHelp]_vars

-----------------------------------------------------------------------------
(* disableActionsIfNecessary applied once to a document with or without     *)
(* pages, with or without the inner toolbar and its actions.               *)

\* the toolbar controls that can carry the class 'ui-action'
ActionIds == {"toggle-card-backs", "toggle-two-sided"}

\* the inline style an action starts with: none, or the one an earlier
\* enabling left on it
ActionStyles == {NoStyle, [NoStyle EXCEPT !.opacity = "1", !.pointerEvents = "auto"]}

InitActions ==
  \E pages \in SeqsUpTo(GeneratedPages, MaxPages),
     missing \in SUBSET {"ui-toolbar-inner"},
     actions \in SUBSET ActionIds,
     style \in ActionStyles :
    /\ "ui-toolbar-inner" \in missing => actions = {}
    /\ Generated([EmptyDocument EXCEPT
                    !.pages = pages, !.ids = AllIds \ missing,
                    !.actions = actions,
                    !.style = [id \in AllIds |->
                                 IF id \in actions THEN style ELSE @[id]]])

DisableActionsIfNecessary ==
  /\ phase = "document"
  /\ Ran("disableActionsIfNecessary", disableActionsIfNecessary(Started), {})
  /\ phase' = "done"
  /\ UNCHANGED timer

NextActions == DisableActionsIfNecessary

SpecActions == InitActions /\ [][NextActions]_vars

-----------------------------------------------------------------------------
(* toggleDisplay called once and then once more with the same arguments.    *)

\* pages with or without the class 'filler', in any display state
DisplayPages ==
  [classes : SUBSET {"filler"}, hasTag : {FALSE}, cards : {0}, covers : {0},
   display : {"", "block", "none", "inline"}, tag : {""}]

InitDisplay ==
  \E pages \in SeqsUpTo(DisplayPages, MaxToggled) :
    Generated([EmptyDocument EXCEPT !.pages = pages])

DisplayCall(className, on) == "toggleDisplay " \o className \o " " \o on

ToggleDisplay ==
  \E className \in {"filler", "page-backs"}, on \in OnArgs :
    /\ phase \in {"document", "once"}
    /\ phase = "once" => lastOp = DisplayCall(className, on)
    /\ LET r == toggleDisplay(Started, className, on)
       IN RanWith(DisplayCall(className, on), r.dom, {}, r.ret)
    /\ phase' = IF phase = "document" THEN "once" ELSE "twice"
    /\ UNCHANGED timer

NextDisplay == ToggleDisplay

SpecDisplay == InitDisplay /\ [][NextDisplay]_vars

-----------------------------------------------------------------------------
(* Vocabulary of the properties, stated without the script's own helpers.  *)

Displayed(d) == {p \in DOMAIN d.pages : d.pages[p].display # "none"}

\* 1-based position of page p among the displayed pages, in document order
Rank(d, p) == Cardinality({q \in Displayed(d) : q <= p})

PageLabel(k, n) == "Page " \o ToString(k) \o " / " \o ToString(n)

StatsLabel(c, n) == ToString(c) \o " cards<br />" \o ToString(n) \o " pages"

RECURSIVE SumOver(_, _)
SumOver(S, d) ==
  IF S = {} THEN 0
  ELSE LET p == CHOOSE x \in S : TRUE
       IN d.pages[p].cards - d.pages[p].covers + SumOver(S \ {p}, d)

\* cards minus covers on the displayed pages that are not page-backs pages
CountableCards(d) ==
  SumOver({p \in Displayed(d) : "page-backs" \notin d.pages[p].classes}, d)

ButtonVisible(d, id) == id \in d.ids /\ d.style[id].display # "none"

ExactlyOneInline(d, pair) ==
  \/ d.style[ButtonOn(pair)].display = "inline" /\ d.style[ButtonOff(pair)].display = "none"
  \/ d.style[ButtonOn(pair)].display = "none" /\ d.style[ButtonOff(pair)].display = "inline"

Fillers(d) == {p \in DOMAIN d.pages : "filler" \in d.pages[p].classes}

BackPages(d) == {p \in DOMAIN d.pages : "page-backs" \in d.pages[p].classes}

TwoSidedOff(d) ==
  /\ d.style["toggle-two-sided-off"].display = "inline"
  /\ d.style["toggle-two-sided-on"].display = "none"
  /\ \A p \in Fillers(d) : d.pages[p].display = "none"

HasControl(d) == "toggle-two-sided" \in d.ids

ControlDisabled(d) ==
  HasControl(d) =>
    /\ d.style["toggle-two-sided"].opacity = "0.2"
    /\ d.style["toggle-two-sided"].pointerEvents = "none"

ControlEnabled(d) ==
  HasControl(d) =>
    /\ d.style["toggle-two-sided"].opacity = "1"
    /\ d.style["toggle-two-sided"].pointerEvents = "auto"

BacksSwitchedOff == lastOp = "toggleCardBacks" /\ pre.backs /\ ~Shown(dom).backs

BacksSwitchedOn == lastOp = "toggleCardBacks" /\ ~pre.backs /\ Shown(dom).backs

\* two closed rectangles have a point in common
Meet(a, b) ==
  /\ (IF a.left > b.left THEN a.left ELSE b.left)
       <= (IF a.right < b.right THEN a.right ELSE b.right)
  /\ (IF a.top > b.top THEN a.top ELSE b.top)
       <= (IF a.bottom < b.bottom THEN a.bottom ELSE b.bottom)

\* ids of the cut guides still attached to the document
Attached(d) == {d.guides[k].id : k \in DOMAIN d.guides}

\* the pairs (earlier, later) of generated cut guides whose frames overlap
OverlappingPairs(d) ==
  {pr \in (DOMAIN d.guides) \X (DOMAIN d.guides) :
     pr[1] < pr[2] /\ Meet(d.guides[pr[1]], d.guides[pr[2]])}

\* the other generated cut guides whose frames overlap the frame of guide g
Partners(d, g) == {h \in DOMAIN d.guides : h # g /\ Meet(d.guides[g], d.guides[h])}

\* no cut guide of the document overlaps more than one other cut guide
PairsApart(d) == \A g \in DOMAIN d.guides : Cardinality(Partners(d, g)) <= 1

Alone(d, g) == \A h \in DOMAIN d.guides : h # g => ~Meet(d.guides[g], d.guides[h])

\* a footer-content block is blank when every character of it is white
\* space: of the characters the modelled contents are made of (space, tab,
\* line feed, carriage return, form feed and the letter a) only the letter
\* is not
Blank(content) ==
  \A k \in DOMAIN content.innerHTML : content.innerHTML[k] # "a"

\* the footer-content blocks attached to document d
AttachedContents(d) == {d.footerContents[k] : k \in DOMAIN d.footerContents}

\* the cut guides of document d, as a set of elements
GuideElements(d) == {d.guides[k] : k \in DOMAIN d.guides}

\* the cut guides of document d that are descendants of cover c
GuidesOfCover(d, c) == {g \in GuideElements(d) : g.cover = c}

\* what a style.visibility value means on screen: unset counts as visible
Effective(visibility) == IF visibility = "hidden" THEN "hidden" ELSE "visible"

\* the elements of the class named by the last toggleVisibility call
ToggledElements(d) ==
  IF lastOp = "toggleVisibility cut-guide" THEN d.guides ELSE d.footers

\* the handler behind the toolbar control of a button pair
HandlerOf(pair) ==
  CASE pair = "footer" -> "toggleFooter"
    [] pair = "cut-guides" -> "toggleCutGuides"
    [] pair = "two-sided" -> "toggleTwoSided"
    [] pair = "card-backs" -> "toggleCardBacks"

\* a button of the pair is not in document d
PairAbsent(d, pair) == ButtonOn(pair) \notin d.ids \/ ButtonOff(pair) \notin d.ids

\* document d without the record of a pending exception
Content(d) == [d EXCEPT !.threw = FALSE]

Revealed(d) == d.toolbarClass = "ui-toolbar ui-toolbar-revealed do-not-print"

\* what the load-time steps leave behind for good: no cut guide inside a
\* cover, no blank footer-content block, a stats text, and the two-sided
\* buttons set by toggleButtons
LoadSettled ==
  /\ \A c \in 1..dom.coverCards : GuidesOfCover(dom, c) = {}
  /\ \A c \in AttachedContents(dom) : ~Blank(c)
  /\ "ui-stats" \in dom.ids => dom.stats # ""
  /\ "two-sided" \in buttonsSet

\* element id of document d looks and behaves disabled
Disabled(d, id) == d.style[id].opacity = "0.2" /\ d.style[id].pointerEvents = "none"

\* the two toolbar controls that only make sense with back pages
BacksControls(d) == {"toggle-card-backs", "toggle-two-sided"} \cap d.ids

\* the pages of document d that carry the class
OfClass(d, className) == {p \in DOMAIN d.pages : className \in d.pages[p].classes}

\* the display asked for by an explicit argument
Asked(on) == IF on = "true" THEN "block" ELSE "none"

\* the display a call without argument gives an element
Flipped(display) == IF display \in {"", "block"} THEN "none" ELSE "block"

\* the state after a toggleDisplay(className, on) call is as described
DisplayAsDescribed(className, on) ==
  /\ Len(dom.pages) = Len(source.pages)
  /\ \A p \in OfClass(source, className) :
        /\ on # "undefined" => dom.pages[p].display = Asked(on)
        /\ (on = "undefined" /\ phase = "once") =>
              dom.pages[p].display = Flipped(source.pages[p].display)
        /\ dom.pages[p] = [source.pages[p] EXCEPT !.display = dom.pages[p].display]
  /\ \A p \in DOMAIN source.pages \ OfClass(source, className) :
        dom.pages[p] = source.pages[p]
  /\ returned = IF OfClass(source, className) = {} THEN "undefined"
                ELSE dom.pages[CHOOSE p \in OfClass(source, className) :
                                 \A q \in OfClass(source, className) : p <= q].display

\* the elements whose visibility the handler of a button pair toggles
ElementsOf(d, pair) == IF pair = "footer" THEN d.footers ELSE d.guides

\* every element of the sequence is visible (an unset visibility is visible)
AllVisible(elements) ==
  \A k \in DOMAIN elements : elements[k].visibility \in {"", "visible"}

AllHidden(elements) ==
  \A k \in DOMAIN elements : elements[k].visibility = "hidden"

\* the -on (resp. -off) button of the pair is the one shown
OnShown(d, pair) ==
  ButtonVisible(d, ButtonOn(pair)) /\ ~ButtonVisible(d, ButtonOff(pair))

OffShown(d, pair) ==
  ButtonVisible(d, ButtonOff(pair)) /\ ~ButtonVisible(d, ButtonOn(pair))

\* the pages of document d that are not filler pages
Proper(d) == DOMAIN d.pages \ Fillers(d)

\* 1-based position of page p among the pages that are not filler pages
ProperRank(d, p) == Cardinality({q \in Proper(d) : q <= p})

\* cut guide g of document d lies outside every cover, and every cut guide
\* whose rectangle overlaps its rectangle lies inside a cover
OverlapsCoverGuidesOnly(d, g) ==
  /\ d.guides[g].cover = 0
  /\ \A h \in DOMAIN d.guides :
       (h # g /\ Meet(d.guides[g], d.guides[h])) => d.guides[h].cover # 0

\* rectangle a lies strictly to the left of rectangle b
LeftOf(a, b) == a.right < b.left

\* rectangle a lies strictly above rectangle b
Above(a, b) == a.bottom < b.top

\* neither rectangle lies strictly to the left of, to the right of, above or
\* below the other
Touching(a, b) ==
  ~(LeftOf(a, b) \/ LeftOf(b, a) \/ Above(a, b) \/ Above(b, a))

\* the rectangles have no more than an edge or a corner in common
EdgeOrCornerOnly(a, b) ==
  /\ Touching(a, b)
  /\ a.right = b.left \/ b.right = a.left \/ a.bottom = b.top \/ b.bottom = a.top

\* document e differs from document d in nothing but the content of number
\* tags of pages that d displays and the content of the stats element
NumbersOnly(d, e) ==
  /\ DOMAIN e.pages = DOMAIN d.pages
  /\ \A p \in DOMAIN d.pages :
       /\ e.pages[p] = [d.pages[p] EXCEPT !.tag = e.pages[p].tag]
       /\ e.pages[p].tag # d.pages[p].tag =>
            d.pages[p].display # "none" /\ d.pages[p].hasTag
  /\ e.stats # d.stats => "ui-stats" \in d.ids
  /\ e = [d EXCEPT !.pages = e.pages, !.stats = e.stats]

\* the field of the document that holds the elements toggled by `pair`
FieldOf(pair) == IF pair = "footer" THEN "footers" ELSE "guides"

\* document e differs from document d in nothing but the visibility of the
\* elements toggled by `pair` and the display of the two buttons of `pair`
VisibilityOnly(d, e, pair) ==
  /\ DOMAIN e[FieldOf(pair)] = DOMAIN d[FieldOf(pair)]
  /\ \A k \in DOMAIN d[FieldOf(pair)] :
       e[FieldOf(pair)][k] =
         [d[FieldOf(pair)][k] EXCEPT !.visibility = e[FieldOf(pair)][k].visibility]
  /\ \A id \in DOMAIN d.style :
       IF id \in {ButtonOn(pair), ButtonOff(pair)}
       THEN e.style[id] = [d.style[id] EXCEPT !.display = e.style[id].display]
       ELSE e.style[id] = d.style[id]
  /\ e = [d EXCEPT ![FieldOf(pair)] = e[FieldOf(pair)], !.style = e.style]

HasModal(d) == "ui-modal-help" \in d.ids

ModalUp(d) == d.style["ui-modal-help"].display = "block"

HandlerInstalled(d) == d.onclick # "null"

-----------------------------------------------------------------------------
(* Properties.                                                             *)

\* C1: once the load handler has run, and after any sequence of
\* toggleCardBacks, toggleTwoSided, toggleFooter and toggleCutGuides, every
\* displayed page that has a page-number tag reads 'Page k / N', k being its
\* position among the displayed pages and N their number, and the stats
\* element reads '... N pages'.
C1_NumbersFollowDisplay ==
  phase = "loaded" =>
    /\ \A p \in Displayed(dom) :
         dom.pages[p].hasTag =>
           dom.pages[p].tag = PageLabel(Rank(dom, p), Cardinality(Displayed(dom)))
    /\ "ui-stats" \in dom.ids =>
         \E c \in 0..(Len(dom.pages) * MaxCards) :
           dom.stats = StatsLabel(c, Cardinality(Displayed(dom)))

C1_Witness ==
  /\ phase = "loaded"
  /\ lastOp \in {"toggleCardBacks", "toggleTwoSided"}
  /\ "ui-stats" \in dom.ids
  /\ \E p \in Displayed(dom) : dom.pages[p].hasTag /\ Rank(dom, p) < p

\* C2: one call of updatePageNumbers writes 'Page (i+1) / N' into the tag of
\* the i-th displayed page (N displayed pages in all) and leaves the tag of
\* every page with display 'none' as it was.
C2_NumbersDisplayedPagesOnly ==
  phase = "done" =>
    \A p \in DOMAIN dom.pages :
      dom.pages[p].tag =
        IF source.pages[p].display # "none" /\ source.pages[p].hasTag
        THEN PageLabel(Rank(source, p), Cardinality(Displayed(source)))
        ELSE source.pages[p].tag

\* three displayed pages and a hidden one, all tagged
C2_Witness ==
  /\ phase = "done"
  /\ Len(dom.pages) = 4
  /\ dom.pages[2].display = "none"
  /\ <<dom.pages[1].tag, dom.pages[2].tag, dom.pages[3].tag, dom.pages[4].tag>>
       = <<"Page 1 / 3", "-", "Page 2 / 3", "Page 3 / 3">>

\* C3: after updatePageNumbers the stats element reads 'C cards<br />P pages',
\* P the number of displayed pages and C the cards minus the cover-sized
\* cards on the displayed pages that are not page-backs pages.
C3_StatsCountCardsAndPages ==
  phase = "done" =>
    dom.stats = StatsLabel(CountableCards(source), Cardinality(Displayed(source)))

\* a displayed back page with cards, a hidden front page with cards and a
\* displayed front page with a cover among its cards
C3_Witness ==
  /\ phase = "done"
  /\ \E b, h, f \in DOMAIN source.pages :
       /\ b \in Displayed(source) \cap BackPages(source) /\ source.pages[b].cards > 0
       /\ h \notin Displayed(source) \cup BackPages(source) /\ source.pages[h].cards > 0
       /\ f \in Displayed(source) \ BackPages(source) /\ source.pages[f].covers > 0
  /\ dom.stats = StatsLabel(CountableCards(source), Cardinality(Displayed(source)))

\* C4 as stated: two front pages with 4 and 3 cards and a back page with 2
\* cards, all displayed, give '7 cards<br />2 pages'.
C4_SevenCardsTwoPages ==
  phase = "done" => dom.stats = "7 cards<br />2 pages"

\* C4 as amended: the same sheet gives '7 cards<br />3 pages', the back page
\* counting as a page but its cards not counting as cards.
C4_SevenCardsThreePages ==
  phase = "done" => dom.stats = "7 cards<br />3 pages"

C4_Witness ==
  /\ phase = "done"
  /\ lastOp = "updatePageNumbers"
  /\ <<source.pages[1].cards, source.pages[2].cards, source.pages[3].cards>> = <<4, 3, 2>>
  /\ dom.stats = "7 cards<br />3 pages"

\* C5: after load and any sequence of the four toggles, no button pair has
\* both members visible, and a pair that toggleButtons has set has one member
\* with display 'inline' and the other with display 'none'.
C5_OneButtonOfEachPair ==
  phase = "loaded" =>
    \A pair \in ButtonPairs :
      /\ ~(ButtonVisible(dom, ButtonOn(pair)) /\ ButtonVisible(dom, ButtonOff(pair)))
      /\ pair \in buttonsSet => ExactlyOneInline(dom, pair)

C5_Witness ==
  /\ phase = "loaded"
  /\ buttonsSet = ButtonPairs
  /\ dom.style["toggle-card-backs-on"].display = "inline"
  /\ dom.style["toggle-two-sided-off"].display = "inline"
  /\ dom.style["toggle-footer-off"].display = "inline"

\* C6 as stated: a toggleCardBacks call that switches card backs from on to
\* off leaves two-sided printing off (off button shown, every filler page
\* hidden) and the two-sided control disabled, whatever two-sided was before.
C6_BacksOffForcesTwoSidedOff ==
  BacksSwitchedOff => TwoSidedOff(dom) /\ ControlDisabled(dom)

\* C6 as amended: such a call leaves the two-sided control disabled and the
\* two-sided pair showing what it showed before; two-sided printing is off
\* after the call when it was off before, and when it was on only the filler
\* pages that are page-backs pages too are hidden.
C6_BacksOffDisablesTwoSided ==
  BacksSwitchedOff =>
    /\ ControlDisabled(dom)
    /\ Shown(dom).twoSided = pre.twoSided
    /\ ~pre.twoSided => TwoSidedOff(dom)
    /\ \A p \in Fillers(dom) \cap BackPages(dom) : dom.pages[p].display = "none"

C6_Witness ==
  /\ BacksSwitchedOff
  /\ pre.twoSided
  /\ HasControl(dom)
  /\ dom.style["toggle-two-sided-on"].display = "inline"
  /\ \E p \in Fillers(dom) \cap BackPages(dom) : dom.pages[p].display = "none"

\* C7: a toggleCardBacks call that switches card backs from off to on leaves
\* the two-sided control enabled (opacity 1, pointer-events auto) and the
\* two-sided pair showing what it showed before the call.
C7_BacksOnKeepsTwoSided ==
  BacksSwitchedOn =>
    /\ ControlEnabled(dom)
    /\ Shown(dom).twoSided = pre.twoSided
    /\ ExactlyOneInline(dom, "two-sided")

C7_Witness ==
  /\ BacksSwitchedOn
  /\ HasControl(dom)
  /\ ~pre.twoSided
  /\ dom.style["toggle-two-sided-off"].display = "inline"
  /\ Fillers(dom) # {}

\* C8: in a document without page-backs elements, once load and at least one
\* toggleCardBacks call have run the two-sided control is hidden (display
\* 'none') and disabled (opacity 0.2, pointer-events none), and stays so.
C8_NoBacksKeepsControlOff ==
  (/\ phase = "loaded"
   /\ BackPages(dom) = {}
   /\ "card-backs" \in buttonsSet
   /\ HasControl(dom)) =>
    dom.style["toggle-two-sided"] =
      [display |-> "none", opacity |-> "0.2", pointerEvents |-> "none"]

C8_Witness ==
  /\ phase = "loaded"
  /\ BackPages(dom) = {}
  /\ dom.pages # <<>>
  /\ HasControl(dom)
  /\ lastOp = "toggleCardBacks"
  /\ ~pre.backs
  /\ dom.style["toggle-two-sided"].display = "none"

\* C9 as stated: of every two cut guides whose frames overlap, exactly one is
\* still attached after removeOverlappingCutGuides.
C9_OneOfEveryOverlappingPair ==
  phase = "done" =>
    \A pr \in OverlappingPairs(source) :
      (pr[1] \in Attached(dom)) # (pr[2] \in Attached(dom))

\* C9 as amended: in a document where no cut guide overlaps more than one
\* other cut guide, of every two cut guides whose frames overlap exactly one
\* is still attached after removeOverlappingCutGuides.
C9_OneOfEveryPairApart ==
  (phase = "done" /\ PairsApart(source)) =>
    \A pr \in OverlappingPairs(source) :
      (pr[1] \in Attached(dom)) # (pr[2] \in Attached(dom))

\* two overlapping pairs that do not touch each other, one guide of each
\* removed
C9_Witness ==
  /\ phase = "done"
  /\ Len(source.guides) = 4
  /\ PairsApart(source)
  /\ OverlappingPairs(source) = {<<1, 2>>, <<3, 4>>}
  /\ Attached(dom) = {1, 3}

\* C10: removeOverlappingCutGuides removes no cut guide whose frame overlaps
\* no other cut guide; where no two cut guides overlap (or there is none) the
\* call changes nothing.
C10_LoneGuidesStay ==
  phase = "done" =>
    /\ \A g \in DOMAIN source.guides :
         Alone(source, g) => \E k \in DOMAIN dom.guides : dom.guides[k] = source.guides[g]
    /\ OverlappingPairs(source) = {} => dom = source

\* a lone guide that comes after guides that were removed
C10_Witness ==
  /\ phase = "done"
  /\ Len(dom.guides) < Len(source.guides)
  /\ \E g \in DOMAIN source.guides :
       /\ Alone(source, g)
       /\ g \in Attached(dom)
       /\ \E h \in 1..(g - 1) : h \notin Attached(dom)

\* C11: after removeEmptyFooterTags the attached footer-content blocks are
\* exactly the blocks of the original document that are not blank, each with
\* its content untouched and in the original order, wherever the blank
\* blocks stood.
C11_BlankFooterContentsRemoved ==
  lastOp = "removeEmptyFooterTags" =>
    /\ AttachedContents(dom) = {c \in AttachedContents(source) : ~Blank(c)}
    /\ \A k \in 1..(Len(dom.footerContents) - 1) :
          dom.footerContents[k].id < dom.footerContents[k + 1].id

\* blank blocks next to each other and at both ends, around a kept block
C11_Witness ==
  /\ lastOp = "removeEmptyFooterTags"
  /\ Len(source.footerContents) = 4
  /\ Blank(source.footerContents[1])
  /\ Blank(source.footerContents[2])
  /\ ~Blank(source.footerContents[3])
  /\ Len(source.footerContents[3].innerHTML) = 3
  /\ Blank(source.footerContents[4])
  /\ Len(dom.footerContents) = 1

\* C12: after removeCutGuidesOnCover no cover-sized card has a cut guide
\* left, and the cut guides outside every cover are all still attached, with
\* rectangle and visibility unchanged and in their original order.
C12_CoversLoseTheirGuides ==
  lastOp = "removeCutGuidesOnCover" =>
    /\ \A c \in 1..dom.coverCards : GuidesOfCover(dom, c) = {}
    /\ GuideElements(dom) = GuidesOfCover(source, 0)
    /\ \A k \in 1..(Len(dom.guides) - 1) : dom.guides[k].id < dom.guides[k + 1].id

\* a cover holding two cut guides, then a second cover holding one, then a
\* cut guide outside the covers
C12_Witness ==
  /\ lastOp = "removeCutGuidesOnCover"
  /\ Len(source.guides) = 4
  /\ source.guides[1].cover = 1
  /\ source.guides[2].cover = 1
  /\ source.guides[3].cover = 2
  /\ source.guides[4].cover = 0
  /\ Attached(dom) = {4}

\* C13: after two toggleVisibility calls in succession on one class every
\* element of the class has its original effective visibility, and the
\* second call has returned the original effective visibility of the first
\* element of the class.
C13_TwoTogglesRestoreVisibility ==
  phase = "twice" =>
    /\ Len(ToggledElements(dom)) = Len(ToggledElements(source))
    /\ \A k \in DOMAIN ToggledElements(source) :
          Effective(ToggledElements(dom)[k].visibility)
            = Effective(ToggledElements(source)[k].visibility)
    /\ ToggledElements(source) # <<>> =>
          returned = Effective(ToggledElements(source)[1].visibility)

\* three footers that started unset, hidden and visible, toggled twice
C13_Witness ==
  /\ phase = "twice"
  /\ lastOp = "toggleVisibility page-footer"
  /\ Len(source.footers) = 3
  /\ source.footers[1].visibility = ""
  /\ source.footers[2].visibility = "hidden"
  /\ source.footers[3].visibility = "visible"
  /\ dom.footers[1].visibility = "visible"
  /\ returned = "visible"

\* C14: no handler lets an exception out, and a toggle handler that finds a
\* button of its pair absent leaves the document exactly as it found it.
C14_AbsentTargetsAreNoOps ==
  [][/\ ~dom'.threw
     /\ \A pair \in ButtonPairs :
          (lastOp' = HandlerOf(pair) /\ PairAbsent(dom, pair)) =>
            Content(dom') = Content(dom)]_vars

\* C15: in a document that has the help modal, the window click handler is
\* installed exactly when the display of the modal is 'block', whatever
\* toggleHelp calls and clicks have happened.
C15_HandlerIffModalUp ==
  HasModal(dom) => (HandlerInstalled(dom) <=> ModalUp(dom))

\* the modal was up, a click landed on its content, and it is still up with
\* the handler in place
C15_Witness ==
  /\ HasModal(dom)
  /\ lastOp = "click ui-modal-content"
  /\ pre.help
  /\ ModalUp(dom)
  /\ HandlerInstalled(dom)

\* C16: a click reaching the window while the modal is up hides the modal
\* and removes the handler when it landed on the backdrop, and changes
\* nothing when it landed anywhere else; a click while the modal is not up
\* changes nothing.
C16_OnlyBackdropClickCloses ==
  [][\A target \in ClickTargets :
       lastOp' = "click " \o target =>
         IF ModalUp(dom) /\ target = "ui-modal-help"
         THEN /\ dom'.style["ui-modal-help"].display = "none"
              /\ ~HandlerInstalled(dom')
              /\ dom' = [dom EXCEPT !.style["ui-modal-help"].display = "none",
                                    !.onclick = "null"]
         ELSE dom' = dom]_vars

\* the modal was up and a click on the backdrop has closed it
C16_Witness ==
  /\ lastOp = "click ui-modal-help"
  /\ pre.help
  /\ dom.style["ui-modal-help"].display = "none"
  /\ ~HandlerInstalled(dom)

\* C17: the toolbar carries the revealed class only once the deferred
\* revealUI has run, and revealUI runs only after window.onload has gone
\* through all of its steps (cover guides, overlapping guides, blank footer
\* contents, disabled actions, backs controls, two-sided off), and only once.
C17_RevealAfterLoadOnce ==
  /\ [](Revealed(dom) => timer = "fired")
  /\ [][lastOp' = "revealUI" =>
          /\ phase = "loaded"
          /\ timer = "pending" /\ timer' = "fired"
          /\ ~Revealed(dom)
          /\ LoadSettled]_vars

\* a sheet with cut guides on a cover and a blank footer content, loaded and
\* then revealed
C17_Witness ==
  /\ lastOp = "revealUI"
  /\ Revealed(dom)
  /\ source.coverCards = 1
  /\ Len(source.footerContents) = 2
  /\ Len(dom.footerContents) = 1
  /\ timer = "fired"

\* C18: disableActionsIfNecessary on a document without pages leaves every
\* action of the inner toolbar with opacity 0.2 and pointer-events none (and
\* touches nothing else); on a document with at least one page it leaves
\* the whole document as it was.
C18_ActionsDisabledWithoutPages ==
  lastOp = "disableActionsIfNecessary" =>
    IF source.pages = <<>>
    THEN /\ \A a \in source.actions : Disabled(dom, a)
         /\ \A id \in AllIds \ source.actions : dom.style[id] = source.style[id]
         /\ \A a \in source.actions : dom.style[a].display = source.style[a].display
    ELSE dom = source

\* a document without pages whose two actions had been enabled explicitly
C18_Witness ==
  /\ lastOp = "disableActionsIfNecessary"
  /\ source.pages = <<>>
  /\ source.actions = ActionIds
  /\ \A a \in ActionIds : source.style[a].opacity = "1"
  /\ \A a \in ActionIds : Disabled(dom, a)

\* C19: from the end of the load handler on, through every sequence of
\* toggle actions, each of the controls 'toggle-card-backs' and
\* 'toggle-two-sided' has display 'none' exactly when the document has no
\* 'page-backs' page.
C19_BacksControlsHiddenIffNoBacks ==
  phase = "loaded" =>
    \A c \in BacksControls(dom) :
      dom.style[c].display = "none" <=> BackPages(dom) = {}

\* a sheet of pages without back pages: the controls were hidden at load
\* and are still hidden after the backs handler has run
C19_Witness ==
  /\ phase = "loaded"
  /\ lastOp = "toggleCardBacks"
  /\ dom.pages # <<>>
  /\ BackPages(dom) = {}
  /\ BacksControls(dom) = {"toggle-card-backs", "toggle-two-sided"}
  /\ \A c \in BacksControls(dom) : dom.style[c].display = "none"

\* C20: toggleDisplay with an explicit boolean leaves every element of the
\* class at 'block' (true) or 'none' (false) whatever it was, and a second
\* call with the same boolean changes nothing; without the argument an
\* element goes from unset or 'block' to 'none' and from anything else to
\* 'block'; the call returns the display of the first element of the class,
\* or undefined when the class has no element; other elements are untouched.
C20_DisplaySetOrFlipped ==
  /\ [](\A className \in {"filler", "page-backs"}, on \in OnArgs :
          lastOp = DisplayCall(className, on) => DisplayAsDescribed(className, on))
  /\ [][(phase = "once" /\ phase' = "twice"
           /\ \E className \in {"filler", "page-backs"}, on \in {"true", "false"} :
                lastOp = DisplayCall(className, on))
          => (dom' = dom /\ returned' = returned)]_vars

\* three filler pages that started unset, hidden and inline, set to 'block'
\* twice over
C20_Witness ==
  /\ phase = "twice"
  /\ lastOp = DisplayCall("filler", "true")
  /\ Len(source.pages) = 3
  /\ OfClass(source, "filler") = {1, 2, 3}
  /\ source.pages[1].display = ""
  /\ source.pages[2].display = "none"
  /\ source.pages[3].display = "inline"
  /\ \A p \in 1..3 : dom.pages[p].display = "block"
  /\ returned = "block"

\* C21: in a document that has the 'toolbar' element, once the load event
\* has fired the toolbar eventually carries the revealed class, whatever
\* else the document has or lacks.
C21_ToolbarEventuallyRevealed ==
  ("toolbar" \in dom.ids /\ phase # "document") ~> Revealed(dom)

\* C22: once toggleFooter (resp. toggleCutGuides) has been called at least
\* once, the -on button of its pair is the one shown exactly when every
\* footer (resp. cut guide) is visible and the -off button exactly when
\* every one is hidden; in a document without such elements the -off button
\* is the one shown after every call.
C22_ButtonsFollowVisibility ==
  \A pair \in {"footer", "cut-guides"} :
    pair \in buttonsSet =>
      IF ElementsOf(dom, pair) = <<>>
      THEN OffShown(dom, pair)
      ELSE /\ OnShown(dom, pair) <=> AllVisible(ElementsOf(dom, pair))
           /\ OffShown(dom, pair) <=> AllHidden(ElementsOf(dom, pair))

\* two footers hidden by one toggleFooter call and shown again by the next,
\* while the two cut guides left by the load handler are hidden
C22_Witness ==
  /\ lastOp = "toggleFooter"
  /\ Len(dom.footers) = 2
  /\ \A k \in 1..2 : dom.footers[k].visibility = "visible"
  /\ OnShown(dom, "footer")
  /\ Len(dom.guides) = 2
  /\ AllHidden(dom.guides)
  /\ OffShown(dom, "cut-guides")

\* C23: under the index.js revision, after every toggleCardBacks call the
\* -on button of the two-sided pair is the one shown exactly when the -on
\* button of the card-backs pair is, and a filler page is displayed exactly
\* when a page-backs page is.
C23_TwoSidedFollowsBacks ==
  lastOp = "toggleCardBacks" =>
    /\ OnShown(dom, "two-sided") <=> OnShown(dom, "card-backs")
    /\ \A f \in Fillers(dom), b \in BackPages(dom) :
          f \in Displayed(dom) <=> b \in Displayed(dom)

\* C24: when the load handler has finished, every filler page has display
\* 'none', the -off button of the two-sided pair is the one shown, the pages
\* that are not fillers are numbered among themselves, and the stats text
\* gives their cards (back pages not counted) and their number.
C24_TwoSidedOffByDefault ==
  (lastOp = "onload" /\ phase = "loaded") =>
    /\ \A f \in Fillers(dom) : dom.pages[f].display = "none"
    /\ OffShown(dom, "two-sided")
    /\ \A p \in Proper(dom) :
         dom.pages[p].hasTag =>
           dom.pages[p].tag = PageLabel(ProperRank(dom, p), Cardinality(Proper(dom)))
    /\ \A f \in Fillers(dom) : dom.pages[f].tag = source.pages[f].tag
    /\ "ui-stats" \in dom.ids =>
         dom.stats =
           StatsLabel(SumOver({p \in Proper(dom) :
                                "page-backs" \notin dom.pages[p].classes}, dom),
                      Cardinality(Proper(dom)))

\* a sheet with a tagged filler page ahead of a tagged page, just loaded
C24_Witness ==
  /\ lastOp = "onload"
  /\ phase = "loaded"
  /\ "ui-stats" \in dom.ids
  /\ Len(dom.pages) = MaxPages
  /\ \E f \in Fillers(dom) :
       /\ dom.pages[f].hasTag
       /\ \E p \in Proper(dom) : p > f /\ dom.pages[p].hasTag

\* C25: a cut guide outside every cover whose rectangle overlaps only cut
\* guides inside covers is still attached when the load handler has run.
C25_GuidesBesideCoversStay ==
  lastOp = "onload" =>
    \A g \in DOMAIN source.guides :
      OverlapsCoverGuidesOnly(source, g) => source.guides[g].id \in Attached(dom)

\* a cut guide overlapped by an earlier cut guide of the cover, in a document
\* where the load handler removes an overlapping cut guide outside the cover
C25_Witness ==
  /\ lastOp = "onload"
  /\ \E g, h \in DOMAIN source.guides :
       /\ h < g
       /\ OverlapsCoverGuidesOnly(source, g)
       /\ source.guides[h].cover = 1 /\ Meet(source.guides[g], source.guides[h])
       /\ source.guides[g].id \in Attached(dom)
  /\ \E x \in DOMAIN source.guides :
       source.guides[x].cover = 0 /\ source.guides[x].id \notin Attached(dom)

\* C26: the overlap test of removeOverlappingCutGuides gives the same answer
\* for a pair of rectangles in either order, and counts two rectangles as
\* overlapping exactly when neither lies strictly to the left of, to the
\* right of, above or below the other; of two cut guides whose rectangles
\* overlap in that sense, be it by an edge or a corner only, one (the
\* second) is removed, and of two that do not, none.
C26_OverlapSymmetricInclusive ==
  phase = "done" =>
    LET a == source.guides[1]
        b == source.guides[2]
    IN /\ overlap(a, b) <=> overlap(b, a)
       /\ overlap(a, b) <=> Touching(a, b)
       /\ Touching(a, b) => Attached(dom) = {1}
       /\ ~Touching(a, b) => Attached(dom) = {1, 2}

\* two cut guides whose rectangles share one corner and nothing else, the
\* second placed up and to the left of the first, and removed
C26_Witness ==
  /\ phase = "done"
  /\ source.guides[2].right = source.guides[1].left
  /\ source.guides[2].bottom = source.guides[1].top
  /\ source.guides[2].left < source.guides[2].right
  /\ EdgeOrCornerOnly(source.guides[1], source.guides[2])
  /\ Attached(dom) = {1}

\* C27: a call of updatePageNumbers changes nothing but the content of number
\* tags of displayed pages and of the stats element, and a second call right
\* after the first changes nothing at all.
C27_RenumberingIdempotent ==
  [][/\ NumbersOnly(dom, dom')
     /\ phase = "once" => dom' = dom]_vars

\* two calls made on a sheet of a hidden page with the text of an earlier
\* numbering and a displayed page with cards: the first call wrote the tag of
\* the displayed page and the stats text, the tag of the hidden page is as it
\* was
C27_Witness ==
  /\ phase = "twice"
  /\ Len(source.pages) = 2
  /\ source.pages[1].display = "none" /\ source.pages[1].hasTag
  /\ source.pages[1].tag = PageLabel(1, 1) /\ dom.pages[1].tag = PageLabel(1, 1)
  /\ source.pages[2].tag = "-" /\ dom.pages[2].tag = PageLabel(1, 1)
  /\ source.pages[2].cards = MaxCards
  /\ dom.stats = StatsLabel(MaxCards, 1)
  /\ source.guides # <<>>

\* C28: after removeOverlappingCutGuides has run once, no two cut guides that
\* are still attached have overlapping bounding rectangles, and a second run
\* would remove nothing.
C28_NoOverlapsRemain ==
  phase = "done" =>
    /\ OverlappingPairs(dom) = {}
    /\ removeOverlappingCutGuides(dom) = dom

\* C29: for every cut guide of the original document, after
\* removeOverlappingCutGuides has run either that guide is still attached or
\* a cut guide that is still attached overlaps its rectangle.
C29_EveryCutPositionKeepsAGuide ==
  phase = "done" =>
    \A g \in DOMAIN source.guides :
      \/ source.guides[g].id \in Attached(dom)
      \/ \E k \in DOMAIN dom.guides : Meet(dom.guides[k], source.guides[g])

\* C30: in a loaded document that has at least one page and the
\* 'toggle-two-sided' control, whatever toggles have been called, the control
\* takes pointer events exactly when the 'toggle-card-backs-on' button is the
\* one shown.
C30_TwoSidedEnabledIffBacksOn ==
  (phase = "loaded" /\ dom.pages # <<>> /\ HasControl(dom)) =>
    (dom.style["toggle-two-sided"].pointerEvents # "none" <=> Shown(dom).backs)

\* card backs switched off and on again by toggleCardBacks calls in a
\* document where two-sided printing had been switched on
C30_Witness ==
  /\ phase = "loaded"
  /\ HasControl(dom)
  /\ BackPages(dom) # {}
  /\ BacksSwitchedOn
  /\ pre.twoSided
  /\ dom.style["toggle-two-sided"].pointerEvents = "auto"

\* C31: a toggleFooter call changes nothing but the visibility of the footers
\* and the display of the footer buttons, a toggleCutGuides call nothing but
\* the visibility of the cut guides and the display of the cut-guides
\* buttons; the pages, their number tags, the stats text and what the
\* card-backs and two-sided pairs show are as they were before the call.
C31_VisibilityTogglesKeepTheRest ==
  [][/\ lastOp' = "toggleFooter" =>
          VisibilityOnly(dom, dom', "footer") /\ Shown(dom') = Shown(dom)
     /\ lastOp' = "toggleCutGuides" =>
          VisibilityOnly(dom, dom', "cut-guides") /\ Shown(dom') = Shown(dom)]_vars

\* the cut guides just hidden by toggleCutGuides in a numbered sheet whose
\* footers were hidden and whose card backs were switched off before
C31_Witness ==
  /\ lastOp = "toggleCutGuides"
  /\ dom.guides # <<>> /\ AllHidden(dom.guides) /\ OffShown(dom, "cut-guides")
  /\ dom.footers # <<>> /\ AllHidden(dom.footers) /\ OffShown(dom, "footer")
  /\ "card-backs" \in buttonsSet /\ ~Shown(dom).backs
  /\ pre = Shown(dom)
  /\ BackPages(dom) # {}
  /\ dom.stats = StatsLabel(CountableCards(dom), Cardinality(Displayed(dom)))

\* C32: removeCutGuidesOnCover and removeOverlappingCutGuides, called on any
\* document, come to their end, and no step of their loops reads an element
\* at an index past the end of the live collection.
C32_RemovalLoopsTerminate ==
  /\ [](~loop.fault)
  /\ <>(loop.pc = "returned")

\* removeOverlappingCutGuides has returned after its inner loop removed a cut
\* guide below the index of the outer loop and then the cut guide the outer
\* loop was holding: one of four cut guides is left
C32_Witness ==
  /\ loop.pc = "returned"
  /\ lastOp = "removeOverlappingCutGuides"
  /\ Len(source.guides) = 4
  /\ loop.n = 4
  /\ Attached(dom) = {2}
  /\ ~loop.fault

====
